---- MODULE Spec2Model ----
(***************************************************************************)
(* Steam status widget of compiledthoughts: the retry/backoff poller of    *)
(* src/components/OpenSourceCard.astro (script at lines 191-471).          *)
(*                                                                         *)
(* The browser event loop is modelled as interleaving of callbacks: each   *)
(* action is one callback (or one continuation of the async function       *)
(* fetchSteamStatus after an await) run to completion.                     *)
(*                                                                         *)
(* Also modelled: the endpoint /api/steam.json the widget polls (GET of    *)
(* src/layouts/BlogPost.astro, lines 113-221) and the theme preference of  *)
(* src/components/ThemeToggle.astro and src/components/BaseHead.astro.     *)
(***************************************************************************)
EXTENDS Integers, Sequences, FiniteSets, TLC

(* ------------------------------ bounds -------------------------------- *)
\* most fetches simultaneously in flight that the model follows
MaxInFlight == 2
\* the ghost counters of attempts / failures saturate here
MaxCount == 13

(* ------------------------- program constants -------------------------- *)
maxRetries == 10
FastRetries == 5
FastDelay == 1000
SlowBase == 5000
DelayCap == 30000
UpdatePeriod == 120000
InitRecheckDelay == 100
RecentShown == 3
AbortDelay == 10000

VARIABLES
  retryCount,      \* let retryCount (line 192)
  retryTimeoutId,  \* let retryTimeoutId (line 194); 0 is null
  updateInterval,  \* let updateInterval (line 436); 0 is null
  timers,          \* pending setTimeout / setInterval callbacks of the script
  inflight,        \* calls of fetchSteamStatus suspended at an await, in start order
  boot,            \* position of the bootstrap code (lines 439-470)
  domPresent,      \* the three mount elements are in the document
  display,         \* content of the three mount elements
  succeeded,       \* history: some attempt reached line 240
  gaveUp,          \* history: scheduleRetry took the branch of lines 410-413
  delays,          \* history: delays armed by scheduleRetry since the last success
  failures,        \* history: calls of scheduleRetry since the last success
  attempts,        \* history: calls of fetchSteamStatus since page load
  last,            \* history: what the latest callback did
  pre,             \* history: scheduler state the latest callback started from
  storedTheme,     \* the item 'theme' of localStorage
  prefersDark,     \* matchMedia('(prefers-color-scheme: dark)').matches
  darkClass,       \* the document element has the class 'dark'
  dataTheme,       \* attribute data-theme of the document element ("" if none)
  currentTheme,    \* let currentTheme of initThemeToggle ("" before it runs)
  menuHidden,      \* the theme menu has the class 'hidden'
  page,            \* "inline": the head script has run; "ready": the toggle too
  lastChoice,      \* history: the theme option clicked last ("none" if none)
  themeLast        \* history: what the latest theme callback was

widgetVars ==
  <<retryCount, retryTimeoutId, updateInterval, timers, inflight, boot,
    domPresent, display, succeeded, gaveUp, delays, failures, attempts,
    last, pre>>

themeVars ==
  <<storedTheme, prefersDark, darkClass, dataTheme, currentTheme, menuHidden,
    page, lastChoice, themeLast>>

vars == <<widgetVars, themeVars>>

(* ------------------------------ helpers ------------------------------- *)
Min(a, b) == IF a <= b THEN a ELSE b

RECURSIVE Pow2(_)
Pow2(n) == IF n <= 0 THEN 1 ELSE 2 * Pow2(n - 1)

Saturate(n) == Min(n, MaxCount)

\* setTimeout / setInterval return a handle that no pending callback and no
\* live variable of the script holds
NewHandle(ts, held) ==
  CHOOSE n \in 1..(Cardinality(ts) + Cardinality(held) + 1) :
    /\ n \notin {t.id : t \in ts} \cup held
    /\ \A m \in 1..(n - 1) : m \in {t.id : t \in ts} \cup held

\* a clearTimeout without effect
ClearTimeoutNothing(ts, id) == ts

\* clearTimeout(id): a handle that is not pending is ignored
ClearTimeout(ts, id) == {t \in ts : t.id # id}

RetryTimers == {t \in timers : t.kind = "retry"}
IntervalTimers == {t \in timers : t.kind = "interval"}
InitTimers == {t \in timers : t.kind = "init"}

(* -------------------------- payloads / render -------------------------- *)
\* psKind is the JSON type of player.personastate and psVal its text as a
\* sequence of characters (the characters between the quotes for a string)
NoPlayer == [present |-> FALSE, psKind |-> "undefined", psVal |-> <<>>,
             personaname |-> "", profileurl |-> FALSE, timecreated |-> FALSE]

Player(kind, val, name) ==
  [present |-> TRUE, psKind |-> kind, psVal |-> val,
   personaname |-> name, profileurl |-> TRUE, timecreated |-> TRUE]

Game(name, twoWeeks, forever) ==
  [name |-> name, playtime_2weeks |-> twoWeeks, playtime_forever |-> forever]

\* a response body; currentGame is the game's name, "" for null
Payload(err, loading, player, game, recent) ==
  [error |-> err, loading |-> loading, player |-> player,
   currentGame |-> game, recentGames |-> recent]

Digits == <<"0", "1", "2", "3", "4", "5", "6", "7", "8", "9">>

IsDigit(c) == \E k \in 1..10 : Digits[k] = c

DigitVal(c) == (CHOOSE k \in 1..10 : Digits[k] = c) - 1

\* the string parseInt works on: its argument converted to a string
ToText(player) ==
  CASE player.psKind = "null" -> <<"n", "u", "l", "l">>
    [] player.psKind = "undefined" ->
         <<"u", "n", "d", "e", "f", "i", "n", "e", "d">>
    [] OTHER -> player.psVal

\* the characters parseInt skips at the start of its text: the white space
\* and line terminator code points of the language (space, tab, line feed,
\* carriage return, form feed, no-break space, byte order mark; a code point
\* that a string of this module cannot hold goes by its name)
WhiteSpace ==
  { " ", "\t", "\n", "\r", "\f", " ", "﻿",
    "U+000B", "U+1680", "U+2000", "U+2001", "U+2002", "U+2003", "U+2004",
    "U+2005", "U+2006", "U+2007", "U+2008", "U+2009", "U+200A", "U+2028",
    "U+2029", "U+202F", "U+205F", "U+3000" }

\* s without its leading white space
RECURSIVE SkipSpace(_)
SkipSpace(s) ==
  IF s # <<>> /\ Head(s) \in WhiteSpace THEN SkipSpace(Tail(s)) ELSE s

\* value of the longest prefix of decimal digits of s, continuing from acc
RECURSIVE ParseDigits(_, _)
ParseDigits(s, acc) ==
  IF s = <<>> \/ ~IsDigit(Head(s)) THEN acc
  ELSE ParseDigits(Tail(s), acc * 10 + DigitVal(Head(s)))

\* a parseInt that accepts only a text made of decimal digits
ParseIntWhole(player) ==
  LET t == ToText(player)
  IN IF t # <<>> /\ \A k \in 1..Len(t) : IsDigit(t[k])
       THEN [nan |-> FALSE, val |-> ParseDigits(t, 0)]
       ELSE [nan |-> TRUE, val |-> 0]

\* parseInt(x, 10) of line 253: leading white space, an optional sign, then
\* the longest run of decimal digits; NaN when there is no digit: [nan, val]
ParseInt(player) ==
  LET t == SkipSpace(ToText(player))
      signed == t # <<>> /\ Head(t) \in {"+", "-"}
      body == IF signed THEN Tail(t) ELSE t
  IN IF body = <<>> \/ ~IsDigit(Head(body))
       THEN [nan |-> TRUE, val |-> 0]
       ELSE [nan |-> FALSE,
             val |-> IF signed /\ Head(t) = "-"
                       THEN 0 - ParseDigits(body, 0)
                       ELSE ParseDigits(body, 0)]

\* switch of lines 269-301
StatusText(ps) ==
  IF ps.nan THEN "Unknown"
  ELSE CASE ps.val = 0 -> "Offline"
         [] ps.val = 1 -> "Online"
         [] ps.val = 2 -> "Busy"
         [] ps.val = 3 -> "Away"
         [] ps.val = 4 -> "Snooze"
         [] ps.val = 5 -> "Looking to trade"
         [] ps.val = 6 -> "Looking to play"
         [] OTHER -> "Unknown"

RECURSIVE Reverse(_)
Reverse(s) == IF s = <<>> THEN <<>> ELSE Append(Reverse(Tail(s)), Head(s))

Slice3(s) == SubSeq(s, 1, Min(Len(s), RecentShown))

\* the map callback of lines 346-372
GameItem(g) ==
  [name |-> g.name,
   hours |-> g.playtime_2weeks \div 60,
   minutes |-> g.playtime_2weeks % 60,
   totalHours |-> g.playtime_forever \div 60]

\* recent items cut to three before the list is reversed
RecentItemsSliceFirst(games) ==
  LET shown == Reverse(Slice3(games))
  IN [k \in 1..Len(shown) |-> GameItem(shown[k])]

RecentItems(games) ==
  LET shown == Slice3(Reverse(games))
  IN [i \in 1..Len(shown) |-> GameItem(shown[i])]

InitialDisplay ==
  [status |-> "Loading Steam status...", name |-> "",
   gameHidden |-> TRUE, game |-> "",
   recentKind |-> "empty", recent |-> <<>>,
   steamId |-> FALSE, memberSince |-> FALSE]

\* lines 250-402: what the three elements show after a successful response
Render(d, data) ==
  LET hasState == data.player.present /\ data.player.psKind # "undefined"
      withStatus ==
        IF hasState
          THEN [d EXCEPT !.status = StatusText(ParseInt(data.player)),
                         !.name = data.player.personaname,
                         !.gameHidden = (data.currentGame = ""),
                         !.game = IF data.currentGame = "" THEN d.game
                                  ELSE data.currentGame]
          ELSE [d EXCEPT !.status = "Status unavailable", !.name = ""]
  IN IF Len(data.recentGames) > 0
       THEN [withStatus EXCEPT !.recentKind = "games",
                               !.recent = RecentItems(data.recentGames),
                               !.steamId = FALSE, !.memberSince = FALSE]
     ELSE IF data.player.present
       THEN [withStatus EXCEPT !.recentKind = "profile", !.recent = <<>>,
                               !.steamId = data.player.profileurl,
                               !.memberSince = data.player.timecreated]
     ELSE [withStatus EXCEPT !.recentKind = "none", !.recent = <<>>,
                             !.steamId = FALSE, !.memberSince = FALSE]

(* ---------------------- endpoint /api/steam.json ----------------------- *)
\* count=5 of the GetRecentlyPlayedGames request
RecentCount == 5

\* what the Steam Web API answered to the endpoint: ok is FALSE when the key
\* is missing or a request throws, and why says which; player is players[0]
\* (NoPlayer when the list is empty); gameid and gameextrainfo are "" when
\* the field is absent
Upstream(ok, player, gameid, gameextrainfo, hasGames, games) ==
  [ok |-> ok, why |-> IF ok THEN "none" ELSE "exception",
   player |-> player, gameid |-> gameid,
   gameextrainfo |-> gameextrainfo, hasGames |-> hasGames, games |-> games]

\* the ways the handler fails: no API key; the vanity URL request answers
\* with a non-2xx status; it answers with success # 1; any request or
\* response.json() throws (time-out, network, body that is not JSON)
ProxyFailures == {"noKey", "resolveStatus", "resolveNotFound", "exception"}

FailedUpstream(why) ==
  [Upstream(FALSE, NoPlayer, "", "", FALSE, <<>>) EXCEPT !.why = why]

\* a current game taken from gameextrainfo alone
ProxyCurrentGameByName(up) ==
  IF up.player.present THEN up.gameextrainfo ELSE ""

\* const currentGame (name only; "" is null)
ProxyCurrentGame(up) ==
  IF up.player.present /\ up.gameid # ""
    THEN IF up.gameextrainfo # "" THEN up.gameextrainfo ELSE "In Game"
    ELSE ""

\* const recentGames
ProxyRecentGames(up) == IF up.hasGames THEN up.games ELSE <<>>

\* a handler that reports an upstream failure with an error body
RespondWithErrorBody(up) ==
  IF up.why = "noKey"
    THEN [status |-> 200, message |-> "API key not configured",
          body |-> Payload(FALSE, TRUE, NoPlayer, "", <<>>)]
  ELSE IF ~up.ok
    THEN [status |-> 200, message |-> "Temporary API error",
          body |-> Payload(TRUE, FALSE, NoPlayer, "", <<>>)]
  ELSE [status |-> 200, message |-> "",
        body |-> Payload(FALSE, FALSE, up.player, ProxyCurrentGame(up),
                         ProxyRecentGames(up))]

\* the three return statements of the GET handler: status, the message
\* field of the body ("" when it has none) and the other fields of the body
Respond(up) ==
  IF up.why = "noKey"
    THEN [status |-> 200, message |-> "API key not configured",
          body |-> Payload(FALSE, TRUE, NoPlayer, "", <<>>)]
  ELSE IF ~up.ok
    THEN [status |-> 200, message |-> "Temporary API error",
          body |-> Payload(FALSE, TRUE, NoPlayer, "", <<>>)]
  ELSE [status |-> 200, message |-> "",
        body |-> Payload(FALSE, FALSE, up.player, ProxyCurrentGame(up),
                         ProxyRecentGames(up))]

\* the body the GET handler answers with
GET(up) == Respond(up).body

PersonaValue(kind, text) == [kind |-> kind, text |-> text]

\* personastate values the upstream record is drawn with
PersonaValues ==
  { PersonaValue("number", <<Digits[k]>>) : k \in 1..8 } \cup
  { PersonaValue("number", <<"9", "9">>),
    PersonaValue("number", <<"-", "1">>),
    PersonaValue("number", <<"1", ".", "5">>),
    PersonaValue("string", <<"1">>),
    PersonaValue("string", <<"6">>),
    PersonaValue("string", <<"9", "9">>),
    PersonaValue("string", <<"a", "b", "c">>),
    PersonaValue("string", <<"1", "a", "b", "c">>),
    PersonaValue("string", <<" ", "2">>),
    PersonaValue("string", <<"\t", "2">>),
    PersonaValue("string", <<"\n", "3">>),
    PersonaValue("string", <<"\r", "\n", " ", "1">>),
    PersonaValue("string", <<" ", "\t", " ", "0">>),
    PersonaValue("string", <<" ", "4">>),
    PersonaValue("string", <<"U+2028", "5">>),
    PersonaValue("string", <<"\t">>),
    PersonaValue("string", <<>>),
    PersonaValue("null", <<>>),
    PersonaValue("undefined", <<>>) }

GameNames == <<"e1", "e2", "e3", "e4", "e5">>

GameList(n) == [k \in 1..n |-> Game(GameNames[k], 45 * k, 600 * k)]

Upstreams ==
  { Upstream(TRUE, Player(v.kind, v.text, "marcus"), "", "", TRUE, <<>>) :
      v \in PersonaValues } \cup
  { Upstream(TRUE, Player("number", <<"1">>, name), gameid, extra, TRUE,
             <<>>) :
      name \in {"", "marcus"}, gameid \in {"", "440"},
      extra \in {"", "Doom"} } \cup
  { Upstream(TRUE, Player("number", <<"0">>, "marcus"), "", "", TRUE,
             GameList(n)) : n \in 0..RecentCount } \cup
  { Upstream(TRUE, Player("number", <<"0">>, "marcus"), "", "", FALSE, <<>>),
    Upstream(TRUE, NoPlayer, "", "", TRUE, GameList(2)),
    Upstream(TRUE, NoPlayer, "", "", FALSE, <<>>),
    Upstream(FALSE, NoPlayer, "", "", FALSE, <<>>) }

\* upstream answers for the failure paths and the shapes of the success body
ProxyUpstreams ==
  { FailedUpstream(why) : why \in ProxyFailures } \cup
  { Upstream(TRUE, Player("number", <<"1">>, "marcus"), "440", "Doom", TRUE,
             GameList(2)),
    Upstream(TRUE, Player("number", <<"1">>, "marcus"), "440", "", TRUE,
             <<>>),
    Upstream(TRUE, Player("number", <<"0">>, "marcus"), "", "", FALSE, <<>>),
    Upstream(TRUE, NoPlayer, "", "", TRUE, GameList(2)),
    Upstream(TRUE, NoPlayer, "", "", FALSE, <<>>) }

\* bodies the scheduler is exercised with: the endpoint's answer when the
\* upstream fails, a body with an error field, and bodies with data
Payloads ==
  { GET(Upstream(FALSE, NoPlayer, "", "", FALSE, <<>>)),
    Payload(TRUE, FALSE, Player("number", <<"1">>, "marcus"), "Doom",
            <<Game("a", 30, 600)>>),
    Payload(FALSE, FALSE, Player("number", <<"1">>, "marcus"), "", <<>>),
    Payload(FALSE, FALSE, Player("number", <<"0">>, ""), "Doom",
            <<Game("a", 30, 600), Game("b", 90, 90), Game("c", 0, 59),
              Game("d", 120, 121)>>),
    Payload(FALSE, FALSE, NoPlayer, "Doom", <<>>) }

(* ------------------------------ scheduler ------------------------------ *)
\* a sentinel test that also treats a body without player as not ready
IsSentinelOrNoPlayer(data) ==
  data.error \/ data.loading \/ ~data.player.present

\* a sentinel test that only looks at the error field
IsSentinelErrorOnly(data) == data.error

\* line 231
IsSentinel(data) == data.error \/ data.loading

\* what a response of the endpoint carries: a non-2xx status, or a 2xx status
\* with a body that is not JSON, has a truthy loading field, has a truthy
\* error field, or is data.  The body of a 2xx response is drawn when
\* response.json() settles; a response dropped at line 217 is never read, and
\* the model only records what it carried.
ResponseKinds == {"httpError", "invalidJson", "loading", "dataError", "data"}

BodyKind(data) ==
  IF data.loading THEN "loading" ELSE IF data.error THEN "dataError" ELSE "data"

\* a failure handler that shows an error state
DisplayOnFailureShowsError(d) == [d EXCEPT !.status = "Steam unavailable"]

\* lines 220-238 and 403-406: a failure schedules a retry "instead of showing
\* error"; no element is written
DisplayOnFailure(d) == d

\* a backoff whose exponent starts at 0 (5, 10, 20, 30 seconds)
DelayExponentFromZero(rc) ==
  IF rc <= FastRetries THEN FastDelay
  ELSE Min(Pow2(rc - FastRetries - 1) * SlowBase, DelayCap)

\* a backoff whose fast phase is one retry short
DelayShortFastPhase(rc) ==
  IF rc < FastRetries THEN FastDelay
  ELSE Min(Pow2(rc - FastRetries) * SlowBase, DelayCap)

\* lines 417-422
Delay(rc) ==
  IF rc <= FastRetries THEN FastDelay
  ELSE Min(Pow2(rc - FastRetries) * SlowBase, DelayCap)

\* a give-up test that leaves retrying to the interval once it runs
GiveUpNowInSteadyState(rc) == rc >= maxRetries \/ updateInterval # 0

\* a give-up test that lets two more retries through
GiveUpNowAtTwelve(rc) == rc >= maxRetries + 2

\* a give-up test that lets one more retry through
GiveUpNowStrict(rc) == rc > maxRetries

\* line 410
GiveUpNow(rc) == rc >= maxRetries

\* an increment that is applied twice
NextRetryCountTwice(rc) == rc + 2

\* line 415
NextRetryCount(rc) == rc + 1

\* function scheduleRetry (lines 409-434)
ScheduleRetry ==
  /\ failures' = Saturate(failures + 1)
  /\ IF GiveUpNow(retryCount)
       THEN /\ gaveUp' = TRUE
            /\ UNCHANGED <<retryCount, retryTimeoutId, timers, delays>>
       ELSE LET rc == NextRetryCount(retryCount)
                cleared == IF retryTimeoutId # 0
                             THEN ClearTimeout(timers, retryTimeoutId)
                             ELSE timers
                id == NewHandle(cleared, {retryTimeoutId, updateInterval})
            IN /\ retryCount' = rc
               /\ timers' = cleared \cup
                    {[id |-> id, kind |-> "retry", delay |-> Delay(rc)]}
               /\ retryTimeoutId' = id
               /\ delays' = Append(delays, Delay(rc))
               /\ UNCHANGED gaveUp

\* a success that forgets clearTimeout
SuccessTimersKept == timers

\* lines 242-245: a success cancels the pending retry timeout
SuccessTimers ==
  IF retryTimeoutId # 0 THEN ClearTimeout(timers, retryTimeoutId) ELSE timers

\* a start without the guard: every success creates an interval
StartPeriodicUpdatesEverySuccess(ts) ==
  LET id == NewHandle(ts, {updateInterval})
  IN /\ updateInterval' = id
     /\ timers' = ts \cup
          {[id |-> id, kind |-> "interval", delay |-> UpdatePeriod]}

\* a guard with the wrong sense: the interval is never created
StartPeriodicUpdatesInverted(ts) ==
  IF updateInterval # 0
    THEN LET id == NewHandle(ts, {updateInterval})
         IN /\ updateInterval' = id
            /\ timers' = ts \cup
                 {[id |-> id, kind |-> "interval", delay |-> UpdatePeriod]}
    ELSE /\ timers' = ts
         /\ UNCHANGED updateInterval

\* function startPeriodicUpdates (lines 456-462), given the timers left by
\* the caller
StartPeriodicUpdates(ts) ==
  IF updateInterval = 0
    THEN LET id == NewHandle(ts, {updateInterval})
         IN /\ updateInterval' = id
            /\ timers' = ts \cup
                 {[id |-> id, kind |-> "interval", delay |-> UpdatePeriod]}
    ELSE /\ timers' = ts
         /\ UNCHANGED updateInterval

\* lines 197-204 of fetchSteamStatus: the request is sent and the call
\* suspends at the first await.  The abort timer of line 200 can abort the
\* call only while it is in phase "fetch": line 205 clears it once the
\* response is there, and after a rejection its callback has no effect.
\* "ticked" records that the interval has ticked since the call started;
\* "attached" that the mount elements the call holds (it holds none in phase
\* "fetch", see Detach) are elements of the document.
StartFetch(src) ==
  /\ inflight' = Append([k \in 1..Len(inflight) |->
                          [inflight[k] EXCEPT !.ticked = @ \/ src = "tick"]],
                        [phase |-> "fetch", src |-> src,
                         ticked |-> (src = "tick"), attached |-> TRUE])
  /\ attempts' = Saturate(attempts + 1)

\* the abort timer of a call (line 200) is due before the tick that follows
\* the first tick the call has seen (10000 < 120000), so at a tick no call
\* that saw the previous tick is still waiting for its response
AbortsDueBeforeTick ==
  AbortDelay < UpdatePeriod =>
    \A k \in 1..Len(inflight) :
      ~(inflight[k].phase = "fetch" /\ inflight[k].ticked)

Remove(s, i) == SubSeq(s, 1, i - 1) \o SubSeq(s, i + 1, Len(s))

(* ------------------------------- actions ------------------------------- *)
\* the labels of the callbacks that end a call with a failure
FailureOutcomes ==
  {"networkError", "timeout", "httpError", "invalidJson", "loading",
   "dataError"}

NoData == Payload(FALSE, FALSE, NoPlayer, "", <<>>)

\* src: what started the call whose continuation runs ("none" for a timer or
\* page callback); resp: what the response carried ("none" if the callback
\* got no response, "2xx" while the body is still unread); json, data: the
\* body that response.json() delivered; pos: the place of that call among
\* the calls in flight, in start order (0 for a timer or page callback);
\* overtaken: when the callback that ran just before this one was a failure
\* of a call started later than this one, what had started that call;
\* attached: the mount elements that call held were elements of the document
PreOf(i, src, resp, json, data) ==
  [retryCount |-> retryCount, retryPending |-> RetryTimers # {},
   src |-> src, resp |-> resp, json |-> json, data |-> data, pos |-> i,
   attached |-> (i = 0 \/ inflight[i].attached),
   overtaken |-> IF i >= 1 /\ last \in FailureOutcomes /\ pre.pos > i
                   THEN pre.src ELSE "none"]

PreState == PreOf(0, "none", "none", FALSE, NoData)

InitWidget ==
  /\ retryCount = 0
  /\ retryTimeoutId = 0
  /\ updateInterval = 0
  /\ timers = {}
  /\ inflight = <<>>
  /\ boot = "loading"
  /\ domPresent \in BOOLEAN
  /\ display = InitialDisplay
  /\ succeeded = FALSE
  /\ gaveUp = FALSE
  /\ delays = <<>>
  /\ failures = 0
  /\ attempts = 0
  /\ last = "load"
  /\ pre = [retryCount |-> 0, retryPending |-> FALSE,
            src |-> "none", resp |-> "none", json |-> FALSE, data |-> NoData,
            pos |-> 0, attached |-> TRUE, overtaken |-> "none"]

(* ------------------ theme preference (ThemeToggle) -------------------- *)
\* the values of data-theme-option of the three menu buttons
ThemeOptions == {"light", "dark", "system"}

\* localStorage.getItem('theme'): no item (null), or an item with a value
NoItem == [has |-> FALSE, val |-> ""]

Item(v) == [has |-> TRUE, val |-> v]

\* what the item can hold when a page is loaded: the script's own values,
\* or a value written by anything else on the origin
StoredItems == {NoItem, Item("light"), Item("dark"), Item("sepia"), Item("")}

\* a preference that falls back to light
getThemePreferenceLightDefault(item) ==
  IF item.has /\ item.val # "" THEN item.val ELSE "light"

\* const getThemePreference, reading the item
getThemePreference(item) ==
  IF item.has /\ item.val # "" THEN item.val ELSE "system"

\* const isDarkMode; matches is what matchMedia answers
isDarkMode(theme, matches) ==
  IF theme = "system" THEN matches ELSE theme = "dark"

\* const updateTheme
updateTheme(theme, matches) ==
  /\ darkClass' = isDarkMode(theme, matches)
  /\ dataTheme' = theme

\* the inline script of the head has run on a fresh document: the state the
\* page is in before anything of it is shown
InitTheme ==
  /\ storedTheme \in StoredItems
  /\ prefersDark \in BOOLEAN
  /\ darkClass = isDarkMode(getThemePreference(storedTheme), prefersDark)
  /\ dataTheme = ""
  /\ currentTheme = ""
  /\ menuHidden = TRUE
  /\ page = "inline"
  /\ lastChoice = "none"
  /\ themeLast = "load"

\* the page is loaded again: a new document, and its inline head script
LoadPage ==
  /\ darkClass' = isDarkMode(getThemePreference(storedTheme), prefersDark)
  /\ dataTheme' = ""
  /\ currentTheme' = ""
  /\ menuHidden' = TRUE
  /\ page' = "inline"
  /\ themeLast' = "load"
  /\ UNCHANGED <<storedTheme, prefersDark, lastChoice>>
  /\ UNCHANGED widgetVars

\* function initThemeToggle, run by DOMContentLoaded (page = "inline") or
\* by astro:after-swap on the swapped-in markup (page = "ready")
initThemeToggle ==
  /\ currentTheme' = getThemePreference(storedTheme)
  /\ updateTheme(currentTheme', prefersDark)
  /\ menuHidden' = TRUE
  /\ page' = "ready"
  /\ themeLast' = "init"
  /\ UNCHANGED <<storedTheme, prefersDark, lastChoice>>
  /\ UNCHANGED widgetVars

\* click on the toggle button
ToggleMenu ==
  /\ page = "ready"
  /\ menuHidden' = ~menuHidden
  /\ themeLast' = "menu"
  /\ UNCHANGED <<storedTheme, prefersDark, darkClass, dataTheme,
                 currentTheme, page, lastChoice>>
  /\ UNCHANGED widgetVars

\* click outside the toggle and the open menu
ClickOutside ==
  /\ page = "ready"
  /\ ~menuHidden
  /\ menuHidden' = TRUE
  /\ themeLast' = "outside"
  /\ UNCHANGED <<storedTheme, prefersDark, darkClass, dataTheme,
                 currentTheme, page, lastChoice>>
  /\ UNCHANGED widgetVars

\* click on one of the options of the open menu
ClickOption(option) ==
  /\ page = "ready"
  /\ ~menuHidden
  /\ currentTheme' = option
  /\ storedTheme' = IF option = "system" THEN NoItem ELSE Item(option)
  /\ updateTheme(option, prefersDark)
  /\ menuHidden' = TRUE
  /\ lastChoice' = option
  /\ themeLast' = "click"
  /\ UNCHANGED <<prefersDark, page>>
  /\ UNCHANGED widgetVars

\* the OS colour scheme changes: the change listener of the inline script,
\* then (once initThemeToggle has run) the one of the toggle
PreferenceChange ==
  /\ prefersDark' = ~prefersDark
  /\ IF getThemePreference(storedTheme) = "system"
       THEN /\ darkClass' = prefersDark'
            /\ dataTheme' = IF page = "ready" THEN "system" ELSE dataTheme
       ELSE UNCHANGED <<darkClass, dataTheme>>
  /\ themeLast' = "os"
  /\ UNCHANGED <<storedTheme, currentTheme, menuHidden, page, lastChoice>>
  /\ UNCHANGED widgetVars

NextTheme ==
  \/ LoadPage
  \/ initThemeToggle
  \/ ToggleMenu
  \/ ClickOutside
  \/ \E option \in ThemeOptions : ClickOption(option)
  \/ PreferenceChange

\* the widget's page in a fresh profile: no theme stored, a light OS.  The
\* widget and the theme toggle share no state, and each is followed on its
\* own
Init == InitWidget /\ InitTheme /\ storedTheme = NoItem /\ ~prefersDark

\* the theme toggle on a page loaded with any stored item and OS preference
InitThemePage == InitWidget /\ domPresent /\ InitTheme

SpecTheme == InitThemePage /\ [][NextTheme]_vars

\* a bootstrap that also starts the periodic refresh
InitializeSteamStatusWithInterval(ts) ==
  LET id == NewHandle(ts, {retryTimeoutId, updateInterval})
      its == ts \cup {[id |-> id, kind |-> "interval", delay |-> UpdatePeriod]}
  IN IF ~domPresent
       THEN /\ timers' = ts \cup
                 {[id |-> id, kind |-> "init", delay |-> InitRecheckDelay]}
            /\ boot' = "waiting"
            /\ last' = "initWait"
            /\ UNCHANGED <<inflight, attempts>>
       ELSE /\ timers' = its
            /\ boot' = "started"
            /\ last' = "initFetch"
            /\ StartFetch("init")

\* a bootstrap whose re-check loop goes on after the first fetch
InitializeSteamStatusKeepsChecking(ts) ==
  LET again == ts \cup
        {[id |-> NewHandle(ts, {retryTimeoutId, updateInterval}),
          kind |-> "init", delay |-> InitRecheckDelay]}
  IN /\ timers' = again
     /\ IF ~domPresent
          THEN /\ boot' = "waiting"
               /\ last' = "initWait"
               /\ UNCHANGED <<inflight, attempts>>
          ELSE /\ boot' = "started"
               /\ last' = "initFetch"
               /\ StartFetch("init")

\* function initializeSteamStatus (lines 439-454), called from the
\* DOMContentLoaded / requestAnimationFrame callback or from its own timer
InitializeSteamStatus(ts) ==
  IF ~domPresent
    THEN /\ timers' = ts \cup
              {[id |-> NewHandle(ts, {retryTimeoutId, updateInterval}),
                kind |-> "init", delay |-> InitRecheckDelay]}
         /\ boot' = "waiting"
         /\ last' = "initWait"
         /\ UNCHANGED <<inflight, attempts>>
    ELSE /\ timers' = ts
         /\ boot' = "started"
         /\ last' = "initFetch"
         /\ StartFetch("init")

\* lines 465-470: the page's ready callback runs
DomReady ==
  /\ boot = "loading"
  /\ InitializeSteamStatus(timers)
  /\ UNCHANGED <<retryCount, retryTimeoutId, updateInterval, domPresent,
                 display, succeeded, gaveUp, delays, failures>>
  /\ UNCHANGED themeVars
  /\ pre' = PreState

\* line 448: the 100 ms re-check fires
InitRecheck ==
  \E t \in InitTimers :
    /\ InitializeSteamStatus(timers \ {t})
    /\ UNCHANGED <<retryCount, retryTimeoutId, updateInterval, domPresent,
                   display, succeeded, gaveUp, delays, failures>>
    /\ UNCHANGED themeVars
    /\ pre' = PreState

\* a retry timer that stays armed after it has fired
RetryFiresRepeating ==
  \E t \in RetryTimers :
    /\ Len(inflight) < MaxInFlight
    /\ StartFetch("retry")
    /\ last' = "retryFire"
    /\ UNCHANGED <<retryCount, retryTimeoutId, updateInterval, timers, boot,
                   domPresent, display, succeeded, gaveUp, delays, failures>>
    /\ UNCHANGED themeVars
    /\ pre' = PreState

\* lines 430-433: the one-shot retry timeout fires
RetryFires ==
  \E t \in RetryTimers :
    /\ Len(inflight) < MaxInFlight
    /\ timers' = timers \ {t}
    /\ StartFetch("retry")
    /\ last' = "retryFire"
    /\ UNCHANGED <<retryCount, retryTimeoutId, updateInterval, boot,
                   domPresent, display, succeeded, gaveUp, delays, failures>>
    /\ UNCHANGED themeVars
    /\ pre' = PreState

\* line 460: the steady-state interval ticks
IntervalTick ==
  \E t \in IntervalTimers :
    /\ Len(inflight) < MaxInFlight
    /\ AbortsDueBeforeTick
    /\ StartFetch("tick")
    /\ last' = "tick"
    /\ UNCHANGED <<retryCount, retryTimeoutId, updateInterval, timers, boot,
                   domPresent, display, succeeded, gaveUp, delays, failures>>
    /\ UNCHANGED themeVars
    /\ pre' = PreState

\* a catch that fetches again at once after an abort
FetchRejectsImmediate(i, why) ==
  /\ inflight[i].phase = "fetch"
  /\ last' = why
  /\ display' = DisplayOnFailure(display)
  /\ UNCHANGED themeVars
  /\ pre' = PreOf(i, inflight[i].src, "none", FALSE, NoData)
  /\ IF why = "timeout"
       THEN /\ inflight' = Append(Remove(inflight, i),
                                  [phase |-> "fetch", src |-> "retry",
                                   ticked |-> FALSE, attached |-> TRUE])
            /\ attempts' = Saturate(attempts + 1)
            /\ UNCHANGED <<retryCount, retryTimeoutId, timers, gaveUp,
                           delays, failures>>
       ELSE /\ inflight' = Remove(inflight, i)
            /\ ScheduleRetry
            /\ UNCHANGED attempts
  /\ UNCHANGED <<updateInterval, boot, domPresent, succeeded>>

\* the fetch of line 202 rejects (network error, or the abort of line 200):
\* the catch of lines 403-406
FetchRejects(i, why) ==
  /\ inflight[i].phase = "fetch"
  /\ inflight' = Remove(inflight, i)
  /\ ScheduleRetry
  /\ last' = why
  /\ display' = DisplayOnFailure(display)
  /\ UNCHANGED <<updateInterval, boot, domPresent, succeeded, attempts>>
  /\ UNCHANGED themeVars
  /\ pre' = PreOf(i, inflight[i].src, "none", FALSE, NoData)

\* a DOM check that schedules a retry before it returns
ResponseDroppedRetries(i, resp) ==
  /\ inflight[i].phase = "fetch"
  /\ ~domPresent
  /\ inflight' = Remove(inflight, i)
  /\ ScheduleRetry
  /\ last' = "noDom"
  /\ UNCHANGED <<updateInterval, boot, domPresent, display, succeeded,
                 attempts>>
  /\ UNCHANGED themeVars
  /\ pre' = PreOf(i, inflight[i].src, resp, FALSE, NoData)

\* the fetch of line 202 resolves with a response while a mount element is
\* missing: lines 205-218
ResponseDropped(i, resp) ==
  /\ inflight[i].phase = "fetch"
  /\ ~domPresent
  /\ inflight' = Remove(inflight, i)
  /\ last' = "noDom"
  /\ UNCHANGED <<retryCount, retryTimeoutId, updateInterval, timers, boot,
                 domPresent, display, succeeded, gaveUp, delays, failures,
                 attempts>>
  /\ UNCHANGED themeVars
  /\ pre' = PreOf(i, inflight[i].src, resp, FALSE, NoData)

\* the fetch of line 202 resolves with a response while the mount elements
\* are there: lines 205-229.  Lines 207-209 look the elements up; a call that
\* goes on to read the body (line 229) holds on to them.
FetchResolves(i, ok) ==
  /\ inflight[i].phase = "fetch"
  /\ domPresent
  /\ IF ~ok
       THEN /\ inflight' = Remove(inflight, i)
            /\ ScheduleRetry
            /\ last' = "httpError"
            /\ display' = DisplayOnFailure(display)
       ELSE /\ inflight' = [inflight EXCEPT ![i].phase = "json",
                                            ![i].attached = TRUE]
            /\ last' = "response"
            /\ UNCHANGED <<retryCount, retryTimeoutId, timers, gaveUp,
                           delays, failures, display>>
  /\ UNCHANGED <<updateInterval, boot, domPresent, succeeded, attempts>>
  /\ UNCHANGED themeVars
  /\ pre' = PreOf(i, inflight[i].src, IF ok THEN "2xx" ELSE "httpError",
                  FALSE, NoData)

\* response.json() of line 229 rejects: the catch of lines 403-406
JsonRejects(i) ==
  /\ inflight[i].phase = "json"
  /\ inflight' = Remove(inflight, i)
  /\ ScheduleRetry
  /\ last' = "invalidJson"
  /\ display' = DisplayOnFailure(display)
  /\ UNCHANGED <<updateInterval, boot, domPresent, succeeded, attempts>>
  /\ UNCHANGED themeVars
  /\ pre' = PreOf(i, inflight[i].src, "invalidJson", FALSE, NoData)

\* response.json() resolves with an error or loading sentinel: lines 231-238
JsonSoftFailure(i, data) ==
  /\ inflight[i].phase = "json"
  /\ IsSentinel(data)
  /\ inflight' = Remove(inflight, i)
  /\ ScheduleRetry
  /\ last' = IF data.loading THEN "loading" ELSE "dataError"
  /\ display' = DisplayOnFailure(display)
  /\ UNCHANGED <<updateInterval, boot, domPresent, succeeded, attempts>>
  /\ UNCHANGED themeVars
  /\ pre' = PreOf(i, inflight[i].src, BodyKind(data), TRUE, data)

\* what the document shows after lines 251-402 have written the body into the
\* elements of lines 207-209: the rendering when those are the elements of
\* the document, and what it showed before when they have been swapped out
RenderInto(attached, d, data) == IF attached THEN Render(d, data) ELSE d

\* a success that is ignored while a retry armed by another call is pending
JsonSuccessUnlessRetryPending(i, data) ==
  /\ inflight[i].phase = "json"
  /\ ~IsSentinel(data)
  /\ inflight' = Remove(inflight, i)
  /\ last' = "success"
  /\ UNCHANGED themeVars
  /\ pre' = PreOf(i, inflight[i].src, BodyKind(data), TRUE, data)
  /\ IF RetryTimers # {}
       THEN UNCHANGED <<retryCount, retryTimeoutId, updateInterval, timers,
                        display, succeeded, delays, failures>>
       ELSE /\ retryCount' = 0
            /\ retryTimeoutId' = 0
            /\ StartPeriodicUpdates(SuccessTimers)
            /\ display' = RenderInto(inflight[i].attached, display, data)
            /\ succeeded' = TRUE
            /\ delays' = <<>>
            /\ failures' = 0
  /\ UNCHANGED <<boot, domPresent, gaveUp, attempts>>

\* response.json() resolves with data: lines 240-402.  The body is rendered
\* into the elements that lines 207-209 looked up before the await.
JsonSuccess(i, data) ==
  /\ inflight[i].phase = "json"
  /\ ~IsSentinel(data)
  /\ inflight' = Remove(inflight, i)
  /\ retryCount' = 0
  /\ retryTimeoutId' = 0
  /\ StartPeriodicUpdates(SuccessTimers)
  /\ display' = RenderInto(inflight[i].attached, display, data)
  /\ succeeded' = TRUE
  /\ delays' = <<>>
  /\ failures' = 0
  /\ last' = "success"
  /\ UNCHANGED <<boot, domPresent, gaveUp, attempts>>
  /\ UNCHANGED themeVars
  /\ pre' = PreOf(i, inflight[i].src, BodyKind(data), TRUE, data)

\* the calls in flight after the document body is swapped: the elements a
\* call took at lines 207-209 (a call suspended at line 229) are no longer
\* elements of the document
Detach(calls) ==
  [k \in 1..Len(calls) |->
     [calls[k] EXCEPT !.attached = (calls[k].phase # "json")]]

\* the environment takes the mount elements out of the document or puts them
\* back (as the fresh markup of lines 174-189) while the script's variables
\* and timers live on.  No code of the repository does this: the step stands
\* for whatever brings about the state that lines 211-218 and 445-449 test
\* for, a document without the mount elements.  While the document has no
\* mount elements, display holds the markup that comes with them.
DomChange ==
  /\ domPresent' = ~domPresent
  /\ display' = InitialDisplay
  /\ inflight' = Detach(inflight)
  /\ last' = "domChange"
  /\ UNCHANGED <<retryCount, retryTimeoutId, updateInterval, timers,
                 boot, succeeded, gaveUp, delays, failures, attempts>>
  /\ UNCHANGED themeVars
  /\ pre' = PreState

Next ==
  \/ DomReady
  \/ InitRecheck
  \/ RetryFires
  \/ IntervalTick
  \/ \E i \in 1..Len(inflight) : FetchRejects(i, "networkError")
  \/ \E i \in 1..Len(inflight) : FetchRejects(i, "timeout")
  \/ \E i \in 1..Len(inflight), resp \in ResponseKinds :
       ResponseDropped(i, resp)
  \/ \E i \in 1..Len(inflight), ok \in BOOLEAN : FetchResolves(i, ok)
  \/ \E i \in 1..Len(inflight) : JsonRejects(i)
  \/ \E i \in 1..Len(inflight), data \in Payloads : JsonSoftFailure(i, data)
  \/ \E i \in 1..Len(inflight), data \in Payloads : JsonSuccess(i, data)
  \/ DomChange

Spec == Init /\ [][Next]_vars

\* the widget fed by the endpoint while the Steam Web API answers: every
\* fetch gets its response and every body is GET of an upstream answer
InitRender == Init /\ domPresent

NextRender ==
  \/ DomReady
  \/ IntervalTick
  \/ \E i \in 1..Len(inflight) : FetchResolves(i, TRUE)
  \/ \E i \in 1..Len(inflight), up \in Upstreams : JsonSuccess(i, GET(up))

SpecRender == InitRender /\ [][NextRender]_vars

\* the widget behind the endpoint, the network between them working: the
\* status and the body of every response are those of the GET handler
InitProxy == Init /\ domPresent

NextProxy ==
  \/ DomReady
  \/ RetryFires
  \/ IntervalTick
  \/ \E i \in 1..Len(inflight), up \in ProxyUpstreams :
       FetchResolves(i, Respond(up).status \in 200..299)
  \/ \E i \in 1..Len(inflight), up \in ProxyUpstreams :
       JsonSoftFailure(i, Respond(up).body)
  \/ \E i \in 1..Len(inflight), up \in ProxyUpstreams :
       JsonSuccess(i, Respond(up).body)

SpecProxy == InitProxy /\ [][NextProxy]_vars

TypeOK ==
  /\ retryCount \in 0..maxRetries
  /\ retryTimeoutId \in Nat
  /\ updateInterval \in Nat
  /\ Len(inflight) <= MaxInFlight
  /\ boot \in {"loading", "waiting", "started"}
  /\ domPresent \in BOOLEAN

(* ------------------------------- claims -------------------------------- *)
\* C1: at most one scheduler timer (the one-shot retry timeout and the
\* steady-state interval counted together) is pending in any state.
C1_AtMostOneSchedulerTimer ==
  Cardinality(RetryTimers \cup IntervalTimers) <= 1

\* C2: at most one call of fetchSteamStatus is in flight in any state.
C2_FetchesSerialized == Len(inflight) <= 1

\* C3: once scheduleRetry has given up, no call of fetchSteamStatus is ever
\* started again.
C3_GivenUpTerminal ==
  [][gaveUp => Len(inflight') <= Len(inflight)]_vars

\* C4 (as stated): after 10 consecutive failures from the initial state the
\* scheduler has given up, no timer is armed and no 11th attempt is made.
C4_GivenUpAfterTenFailures ==
  (~succeeded /\ failures = maxRetries) =>
    (gaveUp /\ RetryTimers = {} /\ attempts <= maxRetries)

\* C4 (amended): with no success since page load, the 10th failure still
\* arms a retry (30000 ms) and an 11th attempt is made; it is the 11th
\* failure that gives up, arms no timer, and no 12th attempt or further
\* failure follows.
C4_GivenUpAfterElevenFailures ==
  ~succeeded =>
    /\ failures <= maxRetries + 1
    /\ attempts <= maxRetries + 1
    /\ gaveUp <=> (failures = maxRetries + 1)
    /\ failures = maxRetries =>
         /\ retryCount = maxRetries
         /\ RetryTimers # {} =>
              attempts = maxRetries /\ \A t \in RetryTimers : t.delay = 30000
         /\ RetryTimers = {} => attempts = maxRetries + 1
    /\ failures = maxRetries + 1 =>
         /\ retryCount = maxRetries
         /\ RetryTimers = {}
         /\ inflight = <<>>
         /\ attempts = maxRetries + 1

C4_Witness ==
  ~succeeded /\ gaveUp /\ failures = maxRetries + 1 /\ last \in FailureOutcomes

SlowDelayTable == <<10000, 20000, 30000, 30000, 30000>>

\* C5: for retryCount in 6..10 the armed retry delay is 10000, 20000, 30000,
\* 30000, 30000 ms, and no armed retry delay exceeds 30000 ms.
C5_SlowDelays ==
  /\ \A t \in RetryTimers :
       /\ t.delay <= 30000
       /\ retryCount \in 6..10 => t.delay = SlowDelayTable[retryCount - 5]
  /\ \A i \in 1..Len(delays) :
       /\ delays[i] <= 30000
       /\ i \in 6..10 => delays[i] = SlowDelayTable[i - 5]

C5_Witness ==
  /\ retryCount = 10
  /\ Len(delays) = 10
  /\ \E t \in RetryTimers : t.delay = 30000

\* C6: for retryCount in 1..5 the armed retry delay is exactly 1000 ms.
C6_FastDelays ==
  /\ \A t \in RetryTimers : retryCount \in 1..5 => t.delay = 1000
  /\ \A i \in 1..Len(delays) : i \in 1..5 => delays[i] = 1000

C6_Witness ==
  /\ retryCount = 5
  /\ Len(delays) = 5
  /\ \E t \in RetryTimers : t.delay = 1000

\* C7: in a run of consecutive failures from the initial state the delays of
\* the 6th..10th retries are 5000, 10000, 20000, 30000, 30000 ms.
C7_FirstSlowRetryFiveSeconds ==
  ~succeeded =>
    \A i \in 1..Len(delays) :
      i \in 6..10 => delays[i] = <<5000, 10000, 20000, 30000, 30000>>[i - 5]

\* C8 (as stated): every failure outcome increments retryCount by exactly 1,
\* a success sets it to 0, and no other step changes it.
C8_EveryFailureIncrements ==
  [][/\ last' \in FailureOutcomes => retryCount' = retryCount + 1
     /\ last' = "success" => retryCount' = 0
     /\ last' \notin FailureOutcomes \cup {"success"} =>
          retryCount' = retryCount]_vars

\* C8 (amended): a failure outcome increments retryCount by exactly 1 while
\* retryCount < maxRetries and leaves it unchanged at retryCount = maxRetries
\* (give-up); a success sets it to 0; no other step (timer callbacks, a
\* response dropped because a mount element is missing, a 2xx response
\* awaiting its body) changes it.
C8_RetryCountSteps ==
  [][/\ (last' \in FailureOutcomes /\ retryCount < maxRetries) =>
          retryCount' = retryCount + 1
     /\ (last' \in FailureOutcomes /\ retryCount >= maxRetries) =>
          retryCount' = retryCount /\ gaveUp'
     /\ last' = "success" => retryCount' = 0
     /\ last' \notin FailureOutcomes \cup {"success"} =>
          retryCount' = retryCount]_vars

C8_Witness ==
  /\ last \in FailureOutcomes
  /\ pre.retryCount = maxRetries
  /\ retryCount = maxRetries
  /\ gaveUp

\* C9: right after a Success, from whatever scheduler state it started,
\* retryCount = 0, no one-shot retry timer is pending and the steady-state
\* interval is armed.
C9_AfterSuccess ==
  last = "success" =>
    /\ retryCount = 0
    /\ retryTimeoutId = 0
    /\ RetryTimers = {}
    /\ updateInterval # 0
    /\ \E t \in IntervalTimers :
         t.id = updateInterval /\ t.delay = UpdatePeriod

C9_Witness ==
  /\ last = "success"
  /\ pre.retryCount = maxRetries
  /\ pre.retryPending

\* C10: the steady-state interval is armed only by a Success: whenever it is
\* armed some attempt has succeeded, and only a success step arms it.
C10_IntervalOnlyFromSuccess ==
  /\ []((updateInterval # 0 \/ IntervalTimers # {}) => succeeded)
  /\ [][(updateInterval' # updateInterval
          \/ IntervalTimers' # IntervalTimers) => last' = "success"]_vars

C10_Witness ==
  /\ last = "success"
  /\ pre.retryCount > 0
  /\ updateInterval # 0
  /\ IntervalTimers # {}

BackoffTable ==
  <<1000, 1000, 1000, 1000, 1000, 10000, 20000, 30000, 30000, 30000>>

\* what a call of scheduleRetry does to the scheduler, as a step
RetryReaction ==
  IF retryCount < maxRetries
    THEN /\ retryCount' = retryCount + 1
         /\ Cardinality(RetryTimers') = 1
         /\ \E t \in RetryTimers' :
              t.id = retryTimeoutId' /\ t.delay = BackoffTable[retryCount']
    ELSE /\ retryCount' = retryCount
         /\ timers' = timers
         /\ gaveUp'

\* C11: when the first 5 attempts fail and the 6th succeeds, the delays armed
\* in between are 1000 ms five times, the success resets retryCount to 0 and
\* arms the 120000 ms interval, and every tick of the interval starts a fetch.
C11_FiveFailuresThenSuccess ==
  /\ [][(last' = "success" /\ ~succeeded /\ attempts = 6 /\ retryCount = 5) =>
          /\ delays = <<1000, 1000, 1000, 1000, 1000>>
          /\ retryCount' = 0
          /\ RetryTimers' = {}
          /\ updateInterval' # 0
          /\ IntervalTimers' =
               {[id |-> updateInterval', kind |-> "interval",
                 delay |-> 120000]}]_vars
  /\ [][last' = "tick" =>
          /\ Len(inflight') = Len(inflight) + 1
          /\ inflight'[Len(inflight')].phase = "fetch"
          /\ inflight'[Len(inflight')].src = "tick"
          /\ IntervalTimers' = IntervalTimers]_vars

C11_Witness ==
  /\ last = "success"
  /\ pre.retryCount = 5
  /\ attempts = 6
  /\ retryCount = 0
  /\ IntervalTimers # {}

\* C12: when the fetch started by a steady-state tick fails with
\* retryCount = 0 after a success, retryCount becomes 1 and the retry is
\* armed with 1000 ms, less than the 120000 ms of the interval.
C12_SteadyStateNotSticky ==
  (succeeded /\ last \in FailureOutcomes /\ pre.src = "tick"
     /\ pre.retryCount = 0) =>
    /\ retryCount = 1
    /\ Cardinality(RetryTimers) = 1
    /\ \A t \in RetryTimers :
         t.id = retryTimeoutId /\ t.delay = 1000 /\ t.delay < UpdatePeriod

C12_Witness ==
  /\ succeeded
  /\ last \in FailureOutcomes
  /\ pre.src = "tick"
  /\ pre.retryCount = 0
  /\ retryCount = 1
  /\ IntervalTimers # {}

\* C13: a soft failure (error or loading sentinel in a 2xx body) gets the
\* same scheduler reaction as a hard failure such as a network exception or
\* an abort, in every environment state, mount elements absent included.
C13_SoftHandledAsHard ==
  [][/\ last' \in {"networkError", "timeout"} => RetryReaction
     /\ pre'.resp \in {"loading", "dataError"} => RetryReaction]_vars

\* C14 (as stated): a 2xx body without player (and without sentinel) is a
\* soft failure: no reset of retryCount, no steady state, a retry scheduled.
C14_NoPlayerIsSoftFailure ==
  (pre.json /\ ~pre.data.player.present /\ ~pre.data.error
     /\ ~pre.data.loading) =>
    /\ last \in FailureOutcomes
    /\ retryCount >= pre.retryCount

\* C14 (amended): a 2xx body without player (and without sentinel) is a
\* Success: retryCount is reset to 0, no retry is pending, the interval is
\* armed, and the status element the call looked up when its response
\* arrived shows "Status unavailable" (the document shows it when that
\* element has not been swapped out since).
C14_NoPlayerIsSuccess ==
  (pre.json /\ ~pre.data.player.present /\ ~pre.data.error
     /\ ~pre.data.loading) =>
    /\ last = "success"
    /\ retryCount = 0
    /\ failures = 0
    /\ retryTimeoutId = 0
    /\ RetryTimers = {}
    /\ updateInterval # 0
    /\ IntervalTimers # {}
    /\ pre.attached => display.status = "Status unavailable"
    /\ (pre.attached /\ Len(pre.data.recentGames) = 0) =>
         display.recentKind = "none"

C14_Witness ==
  /\ pre.json
  /\ pre.attached
  /\ ~pre.data.player.present
  /\ last = "success"
  /\ pre.retryCount > 0
  /\ display.status = "Status unavailable"

\* C15: a 2xx body with a truthy error or loading field, whatever else it
\* carries, renders nothing, does not reset retryCount, does not start the
\* interval, and calls scheduleRetry exactly once.
C15_SentinelIsSoftFailure ==
  [][(pre'.json /\ (pre'.data.error \/ pre'.data.loading)) =>
       /\ last' \in {"loading", "dataError"}
       /\ display' = display
       /\ succeeded' = succeeded
       /\ updateInterval' = updateInterval
       /\ IntervalTimers' = IntervalTimers
       /\ failures' = Saturate(failures + 1)
       /\ RetryReaction]_vars

C15_Witness ==
  /\ pre.json
  /\ pre.data.error
  /\ pre.data.player.present
  /\ last = "dataError"
  /\ retryCount = pre.retryCount + 1

\* C19: the abort of a fetch that is still waiting for its response is one
\* failure outcome: the call ends, scheduleRetry runs once with the usual
\* increment and delay, and no fetch is started by that step.
C19_TimeoutGoesThroughBackoff ==
  [][last' = "timeout" =>
       /\ Len(inflight') = Len(inflight) - 1
       /\ attempts' = attempts
       /\ failures' = Saturate(failures + 1)
       /\ RetryReaction]_vars

C19_Witness ==
  /\ last = "timeout"
  /\ pre.retryCount = 6
  /\ retryCount = 7
  /\ \E t \in RetryTimers : t.delay = 20000

KnownStatuses ==
  {"Loading Steam status...", "Offline", "Online", "Busy", "Away", "Snooze",
   "Looking to trade", "Looking to play", "Unknown", "Status unavailable"}

\* C20: no failure outcome changes the display: before the first success the
\* elements keep their initial content, a failure or give-up after a success
\* leaves the rendered presence as it was, and no failure state is rendered.
C20_FailuresLeaveDisplay ==
  /\ [](~succeeded => display = InitialDisplay)
  /\ [](display.status \in KnownStatuses)
  /\ [][last' \in FailureOutcomes => display' = display]_vars

C20_Witness ==
  /\ gaveUp
  /\ last \in FailureOutcomes
  /\ pre.retryCount = maxRetries
  /\ display.status = "Online"

StateNames ==
  <<"Offline", "Online", "Busy", "Away", "Snooze", "Looking to trade",
    "Looking to play">>

ByTable(n) == IF n \in 0..6 THEN StateNames[n + 1] ELSE "Unknown"

\* the values that are written as an integer, with that integer
IntegerValues ==
  { [text |-> <<Digits[k]>>, n |-> k - 1] : k \in 1..8 } \cup
  { [text |-> <<"9", "9">>, n |-> 99], [text |-> <<"-", "1">>, n |-> 0 - 1] }

\* the values that start with an integer, with that integer
LeadingIntegerValues ==
  IntegerValues \cup
  { [text |-> <<"1", ".", "5">>, n |-> 1],
    [text |-> <<"1", "a", "b", "c">>, n |-> 1],
    [text |-> <<" ", "2">>, n |-> 2],
    [text |-> <<"\t", "2">>, n |-> 2],
    [text |-> <<"\n", "3">>, n |-> 3],
    [text |-> <<"\r", "\n", " ", "1">>, n |-> 1],
    [text |-> <<" ", "\t", " ", "0">>, n |-> 0],
    [text |-> <<" ", "4">>, n |-> 4],
    [text |-> <<"U+2028", "5">>, n |-> 5] }

\* a body with a personastate has just been classified
ClassifiedPersona ==
  /\ pre.json
  /\ ~pre.data.error
  /\ ~pre.data.loading
  /\ pre.data.player.present
  /\ pre.data.player.psKind # "undefined"

StatusBy(values) ==
  IF pre.data.player.psKind \in {"number", "string"}
       /\ \E e \in values : e.text = pre.data.player.psVal
    THEN ByTable((CHOOSE e \in values : e.text = pre.data.player.psVal).n)
    ELSE "Unknown"

\* C16 (as stated): a personastate of 0..6 is displayed by the fixed table
\* and every other value (99, negative, not a number) as Unknown; the
\* outcome is Success.
C16_StatusByTable ==
  ClassifiedPersona =>
    /\ last = "success"
    /\ display.status = StatusBy(IntegerValues)

\* C16 (amended): the displayed state is the table entry of the integer the
\* personastate starts with (as parseInt reads it: 1.5 and "1abc" are Online),
\* and Unknown when that integer is not 0..6 or there is none; the outcome is
\* Success.
C16_StatusByLeadingInteger ==
  ClassifiedPersona =>
    /\ last = "success"
    /\ retryCount = 0
    /\ display.status = StatusBy(LeadingIntegerValues)

C16_Witness ==
  /\ ClassifiedPersona
  /\ last = "success"
  /\ pre.data.player.psVal = <<"1", "a", "b", "c">>
  /\ display.status = "Online"

\* the upstream record behind the classified body is online (personastate 1)
\* and has no gameextrainfo
OnlineWithoutGameInfo(up) ==
  /\ pre.json
  /\ up.ok
  /\ pre.data = GET(up)
  /\ up.player.present
  /\ up.player.psKind = "number"
  /\ up.player.psVal = <<"1">>
  /\ up.gameextrainfo = ""

\* C17 (as stated): an upstream record with personastate 1 and no
\* gameextrainfo is shown as Success, Online, with the current-game element
\* hidden, whatever its gameid is.
C17_OnlineNoActivity ==
  \A up \in Upstreams :
    OnlineWithoutGameInfo(up) =>
      /\ last = "success"
      /\ display.status = "Online"
      /\ display.gameHidden

\* C17 (amended): such a record is shown as Success and Online; the
\* current-game element is hidden when the record has no gameid, and shows
\* "In Game" when it has one.
C17_OnlineActivityByGameId ==
  \A up \in Upstreams :
    OnlineWithoutGameInfo(up) =>
      /\ last = "success"
      /\ display.status = "Online"
      /\ display.gameHidden = (up.gameid = "")
      /\ up.gameid # "" => display.game = "In Game"

C17_Witness ==
  /\ last = "success"
  /\ display.status = "Online"
  /\ ~display.gameHidden
  /\ display.game = "In Game"
  /\ \E up \in Upstreams : OnlineWithoutGameInfo(up) /\ up.gameid = "440"

\* C18: the rendered recent items are the first min(n, 3) elements of the
\* reversed list of the payload, in that order; an empty list gives no item.
C18_RecentItemsReversedSliced ==
  (pre.json /\ last = "success") =>
    LET L == pre.data.recentGames
        n == Len(L)
    IN /\ Len(display.recent) = IF n < 3 THEN n ELSE 3
       /\ \A k \in 1..Len(display.recent) :
            /\ display.recent[k].name = L[n + 1 - k].name
            /\ display.recent[k].totalHours =
                 L[n + 1 - k].playtime_forever \div 60
       /\ (display.recentKind = "games") = (n > 0)

C18_Witness ==
  /\ pre.json
  /\ last = "success"
  /\ Len(pre.data.recentGames) = 5
  /\ Len(display.recent) = 3
  /\ display.recent[1].name = "e5"
  /\ display.recent[2].name = "e4"
  /\ display.recent[3].name = "e3"

\* what the three elements let the visitor see: the text of the current-game
\* element counts only while the element is not hidden
Visible(d) == [d EXCEPT !.game = IF d.gameHidden THEN "" ELSE d.game]

\* C21: after any Success the displayed state is a function of the latest
\* successful payload alone: it is what rendering that payload into the
\* fresh markup shows, whatever was rendered before.
C21_DisplayFromLatestPayload ==
  (pre.json /\ last = "success") =>
    Visible(display) = Visible(Render(InitialDisplay, pre.data))

\* C22: the first fetch is started without delay and once: the
\* initialization callback starts it in the very step that finds the mount
\* elements, with retryCount = 0 and no timer of any kind armed, and after
\* that step neither the re-check timer nor the initialization runs again.
C22_FirstFetchImmediateOnce ==
  /\ [][last' \in {"initFetch", "initWait"} =>
          /\ boot # "started"
          /\ (last' = "initFetch") = domPresent]_vars
  /\ [][last' = "initFetch" =>
          /\ attempts = 0
          /\ attempts' = 1
          /\ retryCount' = 0
          /\ timers' = {}
          /\ boot' = "started"
          /\ inflight' =
               <<[phase |-> "fetch", src |-> "init", ticked |-> FALSE,
                 attached |-> TRUE]>>]_vars
  /\ [](boot = "started" => InitTimers = {})

C22_Witness ==
  /\ last = "initFetch"
  /\ boot = "started"
  /\ attempts = 1
  /\ retryCount = 0
  /\ timers = {}
  /\ Len(inflight) = 1

\* C23: in every reachable state 0 <= retryCount <= maxRetries, whatever the
\* interleaving of timers and of the outcomes of overlapping calls.
C23_RetryCountInRange == retryCount \in 0..10

C23_Witness ==
  /\ last \in FailureOutcomes
  /\ pre.retryCount = maxRetries
  /\ retryCount = maxRetries
  /\ Len(inflight) >= 1
  /\ \E k \in 1..Len(inflight) : inflight[k].src = "tick"

\* C24: at most one retry timeout is pending, and only while retryCount >= 1
\* and under the handle retryTimeoutId; a Success leaves none pending, so the
\* retry timeout that fires was armed after the latest Success.
C24_OneRetryTimer ==
  /\ [](Cardinality(RetryTimers) <= 1)
  /\ [](\A t \in RetryTimers : retryCount >= 1 /\ t.id = retryTimeoutId)
  /\ [][last' = "success" => RetryTimers' = {}]_vars
  /\ [][last' = "retryFire" => retryCount >= 1 /\ failures >= 1]_vars

C24_Witness ==
  /\ last = "success"
  /\ pre.retryPending
  /\ pre.retryCount >= 2
  /\ RetryTimers = {}
  /\ Len(inflight) >= 1

\* C25: the interval is created once and never cancelled: once
\* updateInterval is set, no step changes it or the pending interval timer,
\* exactly that one interval is pending with period 120000, and each of its
\* ticks starts a fetch, with a retry pending or after give-up as well.
C25_IntervalOnceAndForever ==
  /\ [][updateInterval # 0 =>
          /\ updateInterval' = updateInterval
          /\ IntervalTimers' = IntervalTimers]_vars
  /\ [](updateInterval # 0 =>
          IntervalTimers = {[id |-> updateInterval, kind |-> "interval",
                             delay |-> 120000]})
  /\ [](updateInterval = 0 => IntervalTimers = {})
  /\ [][last' = "tick" =>
          /\ attempts' = Saturate(attempts + 1)
          /\ Len(inflight') = Len(inflight) + 1]_vars

C25_Witness ==
  /\ last = "tick"
  /\ gaveUp
  /\ retryCount = maxRetries
  /\ RetryTimers # {}
  /\ IntervalTimers # {}
  /\ inflight[Len(inflight)].src = "tick"

\* C26: while no attempt has succeeded the attempts are sequential (at most
\* one call in flight, never together with a pending retry timeout, never an
\* interval), at most maxRetries + 1 = 11 attempts are made, and once
\* scheduleRetry has given up no timer is pending, no call is in flight and
\* no fetch is started again.
C26_TerminatesWithoutSuccess ==
  /\ [](~succeeded =>
          /\ Len(inflight) <= 1
          /\ ~(inflight # <<>> /\ RetryTimers # {})
          /\ IntervalTimers = {}
          /\ attempts <= 11)
  /\ [](~succeeded /\ gaveUp =>
          /\ attempts = 11
          /\ timers = {}
          /\ inflight = <<>>)
  /\ [][~succeeded /\ gaveUp =>
          /\ attempts' = attempts
          /\ inflight' = inflight
          /\ timers' = timers
          /\ ~succeeded']_vars

C26_Witness ==
  /\ ~succeeded
  /\ gaveUp
  /\ last \in FailureOutcomes
  /\ attempts = 11
  /\ failures = 11
  /\ timers = {}
  /\ inflight = <<>>

\* C27: a response that arrives while a mount element is missing ends the
\* call and changes nothing else: retryCount, the timers, the interval and
\* the display stay as they are.  If no interval is armed then, nothing is
\* pending or in flight, and no fetch is started again, although
\* retryCount < maxRetries.
C27_DroppedResponseStopsPolling ==
  /\ [][last' = "noDom" =>
          /\ ~domPresent
          /\ Len(inflight') = Len(inflight) - 1
          /\ retryCount' = retryCount
          /\ retryTimeoutId' = retryTimeoutId
          /\ updateInterval' = updateInterval
          /\ timers' = timers
          /\ failures' = failures
          /\ gaveUp' = gaveUp
          /\ display' = display]_vars
  /\ [](last = "noDom" /\ updateInterval = 0 =>
          timers = {} /\ inflight = <<>>)
  /\ [][(boot = "started" /\ updateInterval = 0 /\ timers = {}
           /\ inflight = <<>>) =>
          /\ attempts' = attempts
          /\ inflight' = inflight
          /\ timers' = timers
          /\ retryCount' = retryCount]_vars

C27_Witness ==
  /\ last = "noDom"
  /\ pre.resp = "data"
  /\ updateInterval = 0
  /\ retryCount \in 1..(maxRetries - 1)
  /\ ~gaveUp
  /\ timers = {}
  /\ inflight = <<>>

\* C28: outcomes are applied in the order in which they are processed, not
\* in the order in which the calls were started: a Success of a call that is
\* processed right after the failure of a later-started call resets
\* retryCount to 0, cancels the retry timeout armed by that failure, and
\* renders its own payload over the display (the mount elements being those
\* the page was loaded with, as they are on every page of the site).
C28_ResolutionOrder ==
  [][(last' = "success" /\ pre'.overtaken # "none") =>
       /\ last \in FailureOutcomes
       /\ retryCount >= 1
       /\ retryCount' = 0
       /\ retryTimeoutId' = 0
       /\ RetryTimers' = {}
       /\ failures' = 0
       /\ pre'.attached => display' = Render(display, pre'.data)]_vars

C28_Witness ==
  /\ last = "success"
  /\ pre.src = "retry"
  /\ pre.overtaken = "tick"
  /\ pre.attached
  /\ pre.retryPending
  /\ pre.retryCount >= 2
  /\ retryCount = 0
  /\ RetryTimers = {}
  /\ display.status = "Offline"

\* the handler's answer to a failure, as the widget reads it: status 200, a
\* body with loading and a message and without error, classified as a soft
\* failure and handed to scheduleRetry
FailureAnswer(up) ==
  /\ Respond(up).status = 200
  /\ Respond(up).message # ""
  /\ pre.data.loading
  /\ ~pre.data.error
  /\ last = "loading"
  /\ failures >= 1
  /\ IF pre.retryCount < maxRetries
       THEN retryCount = pre.retryCount + 1 /\ RetryTimers # {}
       ELSE retryCount = pre.retryCount /\ gaveUp

\* the fields currentGame and recentGames of a success body
SuccessFields(up) ==
  /\ Respond(up).status = 200
  /\ ~pre.data.loading
  /\ ~pre.data.error
  /\ last = "success"
  /\ (pre.data.currentGame # "") = (up.gameid # "")
  /\ pre.data.recentGames = IF up.hasGames THEN up.games ELSE <<>>

\* C29 (as stated): every failure of the handler is answered with status 200
\* and {loading: true, message}, never with another status or an error
\* body, and reaches the widget as a soft failure; the success body always
\* has the fields player, currentGame (non-null exactly when gameid is set)
\* and recentGames (an array).
C29_SuccessBodyHasPlayer ==
  /\ last \notin {"httpError", "invalidJson", "dataError"}
  /\ pre.json =>
       \A up \in ProxyUpstreams :
         pre.data = Respond(up).body =>
           IF ~up.ok THEN FailureAnswer(up)
           ELSE SuccessFields(up) /\ pre.data.player.present

\* C29 (amended): the same, except that the success body has the field
\* player only when the upstream summary lists a player; without one the
\* body has just currentGame (null) and recentGames.
C29_SuccessBodyPlayerOptional ==
  /\ last \notin {"httpError", "invalidJson", "dataError"}
  /\ pre.json =>
       \A up \in ProxyUpstreams :
         pre.data = Respond(up).body =>
           IF ~up.ok THEN FailureAnswer(up)
           ELSE /\ SuccessFields(up)
                /\ pre.data.player = up.player
                /\ ~up.player.present => pre.data.currentGame = ""

C29_Witness ==
  /\ pre.json
  /\ last = "success"
  /\ pre.retryCount >= 1
  /\ failures = 0
  /\ ~pre.data.player.present
  /\ pre.data.currentGame = ""
  /\ Len(pre.data.recentGames) = 2

\* C30: after any sequence of option clicks the stored preference reads back
\* as the option clicked last; system is stored as no item, light and dark
\* as the item's value; and the document has the class dark exactly when
\* that option is dark, or is system while the OS prefers dark, also after
\* later changes of the OS preference and after the page is loaded again.
C30_ThemeRoundTrip ==
  lastChoice # "none" =>
    /\ getThemePreference(storedTheme) = lastChoice
    /\ (lastChoice = "system") = ~storedTheme.has
    /\ lastChoice # "system" => storedTheme = [has |-> TRUE, val |-> lastChoice]
    /\ darkClass =
         (lastChoice = "dark" \/ (lastChoice = "system" /\ prefersDark))
    /\ page = "ready" => currentTheme = lastChoice

C30_Witness ==
  /\ lastChoice = "system"
  /\ themeLast = "os"
  /\ ~storedTheme.has
  /\ prefersDark
  /\ darkClass
  /\ currentTheme = "system"

====
